---- MODULE Spec2Model ----
(***************************************************************************)
(* Model of the collector of PQCEnergyPi (src/Collector/responder.py):     *)
(* the control listener thread, the acquisition threads spawned by START,  *)
(* the main thread with its operator-interrupt handler, the energy         *)
(* accumulator (read_usb_data) and the summary writer (cleanup).           *)
(*                                                                         *)
(* Units.  Charges are whole mWh.  Joules are kept in hundredths of a      *)
(* joule (the ".2f" of the CSV rows), so x 3.6 J/mWh is x 360.  Time is    *)
(* the number of device polls issued so far (datetime.now() is read right  *)
(* after a poll returns).                                                  *)
(***************************************************************************)
EXTENDS Integers, Sequences, FiniteSets, TLC

\* ---- bounds of the model ------------------------------------------------
MaxPolls   == 3    \* device polls the meter answers in one run (later ones return None)
MaxChannel == 1    \* largest mWh count one channel reports
MaxMsgs    == 4    \* datagrams the listener receives in one run
MaxThreads == 2    \* acquisition threads started in one run
MaxCmds    == 2    \* calls of SendCmd in one run of CmdSpec
MaxRaw     == 2    \* largest raw count in a word of a telemetry frame
MaxFlag    == 2    \* largest value of the temperature sign flag
MaxStream  == 17   \* bytes of the longest recording dump

\* ---- values ---------------------------------------------------------------
\* Python's None for the numeric globals (all real values are >= 0)
None == 0 - 1

\* (last - first) * 3.6 joules, in hundredths of a joule
CentiJoulesPerMWh == 360

VARIABLES
  experiment_params,   \* the dict (or other JSON value) installed by GETREADY
  output_file,         \* "none" | "open" | "closed": the detail-file handle
  rows,                \* data rows of the detail file the handle refers to
  running,             \* the running flag
  threads,             \* acquisition threads ever started: [pc, data]
  data_thread,         \* index of the thread START stored last, 0 = None
  stop_event,          \* the shutdown signal
  tc66c_instance,      \* TRUE iff a device connection object is installed
  first_reading_time, last_reading_time, first_mWh, last_mWh,
  GatherErrorCount,
  master_mode,         \* AllResults.csv: "absent" | "RO" | "RW"
  master_output_file,  \* "none" | "closed": the global handle of the log
  summary,             \* rows of AllResults.csv appended in this run
  lpc,                 \* listener: "recv" | "getready" | "stopjoin" | "dead"
  mpc,                 \* main: "wait" | "intjoin" | "cleaned" | "exited" | "returned"
  clock,               \* device polls issued so far
  nmsgs,               \* datagrams received so far
  \* history variables (not read by any action's guard or effect on the above)
  sess,                \* number of GETREADY messages that ran to completion
  lastMsg,             \* what the datagram received last was
  hist,                \* the samples ingested since the last completed GETREADY
  script,              \* progress along GETREADY, START, STOP and nothing else
  \* the serial port of the meter
  wire,                \* the bytes of the last write, "none" before the first
  cmd_queue,           \* command names a caller is about to hand to SendCmd
  \* one call of TC66C.Poll
  known,               \* the field values the meter put into the frame
  buf,                 \* what read(192) returned: [n, ct]
  pd,                  \* the outcome of Poll
  \* one call of TC66C.GetRec
  stream,              \* bytes the meter has still to send
  delivered,           \* bytes the reads have returned so far
  rec,                 \* the carry-over bytearray
  rd,                  \* the records collected
  gpc,                 \* "loop" | "returned"
  \* one run of experimenter.py
  eargs,               \* the command line: [algorithm, host, use_tcp]
  epc,                 \* the statement to execute next, "exited", "done"
  sent,                \* the messages handed to the network, in order
  edone                \* the steps completed so far

progVars == <<experiment_params, output_file, rows, running, threads,
              data_thread, stop_event, tc66c_instance, first_reading_time,
              last_reading_time, first_mWh, last_mWh, GatherErrorCount,
              master_mode, master_output_file, summary>>

vars == <<experiment_params, output_file, rows, running, threads,
          data_thread, stop_event, tc66c_instance, first_reading_time,
          last_reading_time, first_mWh, last_mWh, GatherErrorCount,
          master_mode, master_output_file, summary, lpc, mpc, clock, nmsgs,
          sess, lastMsg, hist, script, wire, cmd_queue, known, buf, pd,
          stream, delivered, rec, rd, gpc, eargs, epc, sent, edone>>

devVars == <<wire, cmd_queue>>

codecVars == <<known, buf, pd>>

recVars == <<stream, delivered, rec, rd, gpc>>

expVars == <<eargs, epc, sent, edone>>

sideVars == <<codecVars, recVars, expVars>>

\* ---- session parameters -----------------------------------------------------
ParamKeys == {"experiment_id", "algorithm", "iterations", "sample_period"}

\* a JSON object: the keys it has and the value of "iterations"
\* (its "sample_period", when it has the key, is one second unless said
\* otherwise)
ObjParams(keys, it) ==
  [kind |-> "obj", has |-> keys, iterations |-> it, sample_period |-> 1]

\* experiment_params = {} at module load, and what GETREADY {} parses to
EmptyParams == ObjParams({}, 0)

\* a JSON value that is not an object (a number, a list, a string)
NonObjParams ==
  [kind |-> "nonobj", has |-> {}, iterations |-> 0, sample_period |-> 1]

\* iteration counts carried by the GETREADY payloads of the model
IterationValues == {0, 100}

\* payloads of a well-formed GETREADY <json object>
ObjPayloads == {EmptyParams} \cup {ObjParams(ParamKeys, it) : it \in IterationValues}

\* GETREADY {.., "sample_period": -1}: a sample period below zero
NegativePeriodParams ==
  [ObjParams(ParamKeys, 100) EXCEPT !.sample_period = 0 - 1]

\* every object a GETREADY of the model carries
GetReadyPayloads == ObjPayloads \cup {NegativePeriodParams}

\* experiment_params.get("sample_period", 1.0)
GetSamplePeriod(p) ==
  IF "sample_period" \in p.has THEN p.sample_period ELSE 1

\* time.sleep(secs) raises ValueError for a negative argument
SleepRaises(secs) == secs < 0

\* dict.get(key, default) for the "iterations" key
GetIterations(p, default) ==
  IF "iterations" \in p.has THEN p.iterations ELSE default

\* Python truth value of experiment_params
Truthy(p) == p.kind = "nonobj" \/ p.has # {}

\* ---- telemetry --------------------------------------------------------------
Channel == 0 .. MaxChannel

NoData == [G0_mWh |-> 0, G1_mWh |-> 0]

\* data.get("G0_mWh", 0.0) + data.get("G1_mWh", 0.0)
Combined(d) == d.G0_mWh + d.G1_mWh

\* the records a poll can decode: one channel counts, the other stays at zero
\* ("1-at-a-time", module docstring)
Frames ==
  {[G0_mWh |-> c, G1_mWh |-> 0] : c \in Channel}
    \cup {[G0_mWh |-> 0, G1_mWh |-> c] : c \in Channel}

\* what one TC66C.Poll call inside read_usb_data can do: return a record,
\* raise (short read, undecodable tag, serial error), or return None
PollOutcomes ==
  {[k |-> "ok", G0_mWh |-> f.G0_mWh, G1_mWh |-> f.G1_mWh] : f \in Frames}
    \cup {[k |-> "exc", G0_mWh |-> 0, G1_mWh |-> 0],
          [k |-> "none", G0_mWh |-> 0, G1_mWh |-> 0]}

NoPoll == [k |-> "none", G0_mWh |-> 0, G1_mWh |-> 0]

FrameOf(o) == [G0_mWh |-> o.G0_mWh, G1_mWh |-> o.G1_mWh]

\* ---- commands of the meter ----------------------------------------------------
\* the seven commands the docstring of SendCmd lists
ValidCmds == {"query", "getva", "gtrec", "lastp", "nextp", "rotat", "update"}

\* a command name: its text, and whether every character of it is ASCII
CmdName(text, isAscii) == [text |-> text, ascii |-> isAscii]

\* the name Poll sends
GetVa == CmdName("getva", TRUE)

\* names a caller may hand to SendCmd: the seven, a word that is none of
\* them, and a text with a character outside ASCII
CmdNames ==
  {CmdName(c, TRUE) : c \in ValidCmds \cup {"hello"}}
    \cup {CmdName("not ascii", FALSE)}

\* self._SIF.write(msg.encode("ascii")): encode raises UnicodeEncodeError for
\* a character outside ASCII, before anything is written; the bytes of an
\* ASCII text are its characters
SendCmd(name) ==
  IF name.ascii
    THEN [raised |-> FALSE, written |-> name.text]
    ELSE [raised |-> TRUE, written |-> "none"]

\* ---- the telemetry frame (TC66C.Poll) ------------------------------------------
FrameBytes == 192    \* read(192)
BlockBytes == 16     \* the block of AES
SlotBytes  == 4      \* "4s" and "I" of the struct formats

\* what the four bytes of a text slot can be
TextClasses == {"printable", "control", "non_ascii", "not_utf8"}

\* bytes.decode(): strict UTF-8
Decodes(text) == text # "not_utf8"

\* tuple index of Python
Item(p, i) == p[i + 1]

\* raw * 10^-decimals, kept exact (the code computes float(raw) * 1e-decimals)
Scaled(raw, decimals) == [raw |-> raw, decimals |-> decimals]

\* the three sub-records as "<4s4s4s13I", "<4s15I", "<4s15I" lay them out, for
\* the field values k of the meter
Layout(k) ==
  <<k.tag, k.text, k.text, 7, 0, 0, 0, 0, 0, 0, 0, 9,
    k.v, k.v + 1, k.v + 2, 0>>
  \o <<k.tag, k.v + 3, 1, 3, 2, 0, k.flag, k.temp, k.v + 4, k.v + 5,
       0, 0, 0, 0, 0, 0>>
  \o <<k.tag, 0, 0, 0, 0, 0, 0, 0, 0, 0, 0, 0, 0, 0, 0, 0>>

KnownValues ==
  [tag : TextClasses, text : TextClasses, v : 0 .. MaxRaw,
   flag : 0 .. MaxFlag, temp : 0 .. MaxRaw]

\* what read(192) can return: nothing, a short read, a whole frame
ReadLengths == {0, BlockBytes, 100, FrameBytes - BlockBytes, FrameBytes}

\* AES in ECB mode with the key of the class, kept symbolic: the ciphertext
\* of the slots under the key
StaticKey == "STATIC_KEY"

Encrypt(key, slots) == [key |-> key, plain |-> slots]

\* AES.decrypt of the first b.n bytes: raises unless they are whole blocks
Decrypt(key, b) ==
  IF b.n % BlockBytes # 0 \/ b.ct.key # key
    THEN [raised |-> TRUE, data |-> <<>>]
    ELSE [raised |-> FALSE, data |-> SubSeq(b.ct.plain, 1, b.n \div SlotBytes)]

\* variant: any flag but 0 means minus
TSignNonZero(flag) == IF flag # 0 THEN 0 - 1 ELSE 1

\* `if pac2[6] == 1: tsign = -1 else: tsign = 1`
TSign(flag) == IF flag = 1 THEN 0 - 1 ELSE 1

\* variant: the voltage scaled like the current
VoltFiveDecimals(pac1) == Scaled(Item(pac1, 12), 5)

\* `Volt=float(pac1[12]) * 1e-4`
Volt(pac1) == Scaled(Item(pac1, 12), 4)

PollNone == [k |-> "none"]

PollRaised == [k |-> "raised"]

Unpolled == [k |-> "unpolled"]

\* Poll() on the reply b: None after "decrypt error", an exception of
\* struct.unpack or of decode leaves Poll, else the PollData record
Poll(b) ==
  LET d == Decrypt(StaticKey, b) IN
  IF d.raised THEN PollNone
  ELSE IF Len(d.data) * SlotBytes < FrameBytes THEN PollRaised
  ELSE
    LET pac1 == SubSeq(d.data, 1, 16)
        pac2 == SubSeq(d.data, 17, 32)
    IN  IF ~Decodes(Item(pac1, 1)) \/ ~Decodes(Item(pac1, 2))
          THEN PollRaised
          ELSE [k          |-> "record",
                Name       |-> Item(pac1, 1),
                Version    |-> Item(pac1, 2),
                SN         |-> Item(pac1, 3),
                Runs       |-> Item(pac1, 11),
                Volt       |-> Volt(pac1),
                Current    |-> Scaled(Item(pac1, 13), 5),
                Power      |-> Scaled(Item(pac1, 14), 4),
                Resistance |-> Scaled(Item(pac2, 1), 1),
                G0_mAh     |-> Item(pac2, 2),
                G0_mWh     |-> Item(pac2, 3),
                G1_mAh     |-> Item(pac2, 4),
                G1_mWh     |-> Item(pac2, 5),
                Temp       |-> Item(pac2, 7) * TSign(Item(pac2, 6)),
                D_plus     |-> Scaled(Item(pac2, 8), 2),
                D_minus    |-> Scaled(Item(pac2, 9), 2)]

\* ---- the recording dump (TC66C.GetRec) -------------------------------------------
RecBytes == 8    \* read(8) and rec[0:8]

\* "<I": four bytes, least significant first
Word(b) == b[1] + 256 * b[2] + 65536 * b[3] + 16777216 * b[4]

\* RecData(Volt=float(r[0]) * 1e-4, Current=float(r[1]) * 1e-5) of eight bytes
RecData(b) ==
  [Volt    |-> Scaled(Word(SubSeq(b, 1, 4)), 4),
   Current |-> Scaled(Word(SubSeq(b, 5, 8)), 5)]

\* the dumps of the meter: byte i of a dump has the value i
Streams == {[i \in 1 .. n |-> i] : n \in 0 .. MaxStream}

\* variant: the bytes left over after a record are thrown away
RestDropped(r) == <<>>

\* `rec = rec[8:]`
Rest(r) == SubSeq(r, RecBytes + 1, Len(r))

GtRec == CmdName("gtrec", TRUE)

RecIdle ==
  /\ stream = <<>>
  /\ delivered = <<>>
  /\ rec = <<>>
  /\ rd = <<>>
  /\ gpc = "returned"

\* ---- the remote side (experimenter.py) -------------------------------------------
Algorithms == {"NULL", "NULLNoLoop", "ML-KEM-1024"}

Hosts == {"192.168.5.59", "10.0.0.2"}

ExpArgs == [algorithm : Algorithms, host : Hosts, use_tcp : BOOLEAN]

\* variant: STOP is sent before the workload is run
ExpOrderStopFirst ==
  <<"getready", "governor", "fan", "temp0", "start", "temp1", "stop",
    "workload", "fan_reset", "governor_reset", "done">>

\* the statements of __main__ in the order of the file
ExpOrder ==
  <<"getready", "governor", "fan", "temp0", "start", "workload", "temp1",
    "stop", "fan_reset", "governor_reset", "done">>

\* the statement after pc
ExpAfter(pc) ==
  LET i == CHOOSE j \in 1 .. Len(ExpOrder) : ExpOrder[j] = pc
  IN  ExpOrder[i + 1]

\* the text a send statement sends
MessageOf(pc) ==
  IF pc = "getready" THEN "GETREADY" ELSE IF pc = "start" THEN "START" ELSE "STOP"

Kinds(msgs) == [i \in 1 .. Len(msgs) |-> msgs[i].kind]

ExpIdle ==
  /\ eargs = [algorithm |-> "NULL", host |-> "192.168.5.59", use_tcp |-> FALSE]
  /\ epc = "not started"
  /\ sent = <<>>
  /\ edone = {}

NoKnown == [tag |-> "printable", text |-> "printable", v |-> 0, flag |-> 0,
            temp |-> 0]

DevIdle == wire = "none" /\ cmd_queue = <<>>

CodecIdle ==
  /\ known = NoKnown
  /\ buf = [n |-> 0, ct |-> Encrypt(StaticKey, Layout(NoKnown))]
  /\ pd = PollNone

\* ---- pure computations of the code ------------------------------------------
\* variant: the total taken from the last reading alone
TotalJoulesNoBase(first, last) == last * CentiJoulesPerMWh

\* total_joules = (last_mWh - first_mWh) * 3.6
TotalJoules(first, last) == (last - first) * CentiJoulesPerMWh

\* current_joules of a detail row: first_mWh if first_mWh is not None else 0.0
CurrentJoules(d, first) ==
  (Combined(d) - (IF first # None THEN first ELSE 0)) * CentiJoulesPerMWh

\* (x / iterations) * 1000
Per1000(x, it) == (x * 1000) \div it

\* variant: no flushing Poll
NeedsFlushNever == FALSE

\* read_usb_data runs the extra Poll "to flush stale data" when nothing is latched
NeedsFlush == first_reading_time = None

\* variant: cleanup writes a summary whether or not anything was latched
LatchedUnchecked == TRUE

\* the condition under which cleanup computes and writes a summary
Latched ==
  /\ first_reading_time # None
  /\ last_reading_time # None
  /\ first_mWh # None
  /\ last_mWh # None

\* file.close() on the handle, when `if output_file:` holds
CloseFile(f) == IF f = "open" THEN "closed" ELSE f

\* variant: START accepted without the test
StartGuardUnchecked == TRUE

\* the test of the START branch
StartGuard == Truthy(experiment_params) /\ output_file # "none" /\ tc66c_instance

Alive(t) == threads[t].pc # "done"

\* `data_thread and data_thread.is_alive()` is false: join() has returned
Joined == IF data_thread = 0 THEN TRUE ELSE ~Alive(data_thread)

\* the interpreter ends once the main thread is through and no acquisition
\* thread (non-daemon) is left; the listener is a daemon thread and ends with it
ProcessEnded ==
  /\ mpc \in {"exited", "returned"}
  /\ \A t \in DOMAIN threads : ~Alive(t)

SetThread(t, pc, d) == [threads EXCEPT ![t].pc = pc, ![t].data = d]

\* ---- history --------------------------------------------------------------------
\* script.at: "idle", then "params", "ready", "running", "stopping", "stopped"
\* while the run is GETREADY <parameters with iterations > 0>, START, STOP with
\* every poll decoded and nothing else happening; "off" otherwise.
\* script.frames: the combined charge of every frame decoded so far on that run.
Off == [at |-> "off", frames |-> <<>>]

Advance(from, to) == IF script.at = from THEN [script EXCEPT !.at = to] ELSE Off

\* hist.first: the first sample ingested since the last completed GETREADY;
\* a later sample below hist.first is a negative-delta sample, the others are
\* the valid ones.  hist.lastValid: the last valid sample; hist.mono: the valid
\* samples were non-decreasing; hist.negative: how many negative-delta samples.
\* hist.clean: no poll has failed since the process started.
NoHist == [first |-> None, lastValid |-> None, mono |-> TRUE, negative |-> 0,
           clean |-> TRUE]

Ingested(h, c) ==
  IF h.first = None
    THEN [h EXCEPT !.first = c, !.lastValid = c]
  ELSE IF ~h.mono THEN h
  ELSE IF c < h.first THEN [h EXCEPT !.negative = @ + 1]
  ELSE IF c < h.lastValid
    THEN [h EXCEPT !.lastValid = h.first, !.mono = FALSE, !.negative = 0]
  ELSE [h EXCEPT !.lastValid = c]

InitProgram ==
  /\ experiment_params = EmptyParams
  /\ output_file = "none"
  /\ rows = <<>>
  /\ running = FALSE
  /\ threads = <<>>
  /\ data_thread = 0
  /\ stop_event = FALSE
  /\ tc66c_instance = FALSE
  /\ first_reading_time = None
  /\ last_reading_time = None
  /\ first_mWh = None
  /\ last_mWh = None
  /\ GatherErrorCount = 0
  /\ master_mode = "RO"
  /\ master_output_file = "none"
  /\ summary = <<>>
  /\ lpc = "recv"
  /\ mpc = "wait"
  /\ clock = 0
  /\ nmsgs = 0
  /\ sess = 0
  /\ lastMsg = "none"
  /\ hist = NoHist
  /\ script = [at |-> "idle", frames |-> <<>>]

Init ==
  /\ InitProgram
  /\ DevIdle
  /\ CodecIdle
  /\ RecIdle
  /\ ExpIdle

\* ---- the summary writer -------------------------------------------------------
\* cleanup().  raised: an exception leaves cleanup; chRW, opOk, chRO: whether
\* os.chmod(.., RW), open(.., "a") and os.chmod(.., RO) succeed.
cleanup(raised, chRW, opOk, chRO) ==
  /\ output_file' = CloseFile(output_file)
  /\ IF ~Latched
       THEN /\ raised = FALSE
            /\ UNCHANGED <<summary, master_mode, master_output_file>>
     ELSE IF experiment_params.kind = "nonobj"
       THEN \* experiment_params.get raises AttributeError
            /\ raised = TRUE
            /\ UNCHANGED <<summary, master_mode, master_output_file>>
     ELSE IF GetIterations(experiment_params, 1) <= 0
       THEN \* "N/A" formatted with :.3f raises ValueError
            /\ raised = TRUE
            /\ UNCHANGED <<summary, master_mode, master_output_file>>
     ELSE
       LET it     == GetIterations(experiment_params, 1)
           total  == TotalJoules(first_mWh, last_mWh)
           dur    == last_reading_time - first_reading_time
           row    == [session        |-> sess,
                      Iterations     |-> GetIterations(experiment_params, None),
                      TotalJoules    |-> total,
                      Duration       |-> dur,
                      JoulesPer1000  |-> Per1000(total, it),
                      SecondsPer1000 |-> Per1000(dur, it)]
           mode1  == IF chRW /\ master_mode # "absent" THEN "RW" ELSE master_mode
           opened == opOk /\ mode1 # "RO"
           mode2  == IF opened THEN "RW" ELSE mode1
           mode3  == IF chRO /\ mode2 # "absent" THEN "RO" ELSE mode2
       IN  IF opened
             THEN /\ raised = FALSE
                  /\ summary' = Append(summary, row)
                  /\ master_output_file' = "closed"
                  /\ master_mode' = mode3
           ELSE IF master_output_file = "none"
             THEN /\ raised = FALSE
                  /\ master_mode' = mode3
                  /\ UNCHANGED <<summary, master_output_file>>
           ELSE \* write on the closed handle of an earlier cleanup: ValueError
                  /\ raised = TRUE
                  /\ master_mode' = mode2
                  /\ UNCHANGED <<summary, master_output_file>>

\* ---- the control listener (network_listener, process_network_message) -------
\* variant: the listener goes on receiving whatever the shutdown signal says
AfterMessageKeepsReceiving(stopped) == "recv"

\* what the listener does after a handler returns: the test of
\* `while not stop_event.is_set()`, then it blocks in recvfrom again
AfterMessage(stopped) == IF stopped THEN "dead" ELSE "recv"

\* the datagrams for which message.startswith("STOP") holds: "STOP <json>",
\* "STOP" alone (split raises ValueError), "STOP <text that is not JSON>"
\* (json.loads raises JSONDecodeError), and a word that begins with STOP,
\* such as "STOPPED" (split raises ValueError)
StopKinds == {"STOP", "STOP_bare", "STOP_bad", "STOP_word"}

\* variant: the payload parsed before cleanup(), so that its exception skips
\* the finalization
PayloadParsedFirst(kind) == kind # "STOP"

\* the payload of STOP is split and parsed after cleanup() and
\* stop_event.set(): its exception is raised when finalization is over and
\* is only logged
PayloadAborts(kind) == FALSE

\* recvfrom times out and the loop test finds the shutdown signal set
ListenerStop ==
  /\ lpc = "recv"
  /\ ~ProcessEnded
  /\ stop_event
  /\ lpc' = "dead"
  /\ UNCHANGED <<progVars, mpc, clock, nmsgs, sess, lastMsg, hist, script>>
  /\ UNCHANGED <<devVars, sideVars>>

Received(what) ==
  /\ lpc = "recv"
  /\ ~ProcessEnded
  /\ nmsgs < MaxMsgs
  /\ nmsgs' = nmsgs + 1
  /\ lastMsg' = what

\* a datagram whose bytes do not decode: data.decode() raises, the loop breaks
RecvUndecodable ==
  /\ Received("undecodable")
  /\ lpc' = "dead"
  /\ script' = Off
  /\ UNCHANGED <<progVars, mpc, clock, sess, hist>>
  /\ UNCHANGED <<devVars, sideVars>>

\* a message that is none of GETREADY.., START, STOP..
RecvUnknown ==
  /\ Received("unknown")
  /\ lpc' = AfterMessage(stop_event)
  /\ script' = Off
  /\ UNCHANGED <<progVars, mpc, clock, sess, hist>>
  /\ UNCHANGED <<devVars, sideVars>>

\* GETREADY without payload or with text that is not JSON: ValueError or
\* JSONDecodeError before anything is assigned
RecvGetReadyMalformed ==
  /\ Received("GETREADY_bad")
  /\ lpc' = AfterMessage(stop_event)
  /\ script' = Off
  /\ UNCHANGED <<progVars, mpc, clock, sess, hist>>
  /\ UNCHANGED <<devVars, sideVars>>

\* GETREADY <json that is not an object>: experiment_params is assigned, then
\* experiment_params.get raises AttributeError
RecvGetReadyNonObject ==
  /\ Received("GETREADY_nonobj")
  /\ experiment_params' = NonObjParams
  /\ lpc' = AfterMessage(stop_event)
  /\ script' = Off
  /\ UNCHANGED <<output_file, rows, running, threads, data_thread, stop_event,
                 tc66c_instance, first_reading_time, last_reading_time,
                 first_mWh, last_mWh, GatherErrorCount, master_mode,
                 master_output_file, summary, mpc, clock, sess, hist>>
  /\ UNCHANGED <<devVars, sideVars>>

\* GETREADY <json object>, up to the construction of TC66C: the parameters are
\* installed and the detail file is opened (the open may fail)
RecvGetReady ==
  /\ Received("GETREADY")
  /\ \E p \in GetReadyPayloads, openOk \in BOOLEAN :
       /\ experiment_params' = p
       /\ IF openOk
            THEN output_file' = "open" /\ rows' = <<>>
            ELSE UNCHANGED <<output_file, rows>>
       /\ script' = IF openOk /\ Truthy(p) /\ GetIterations(p, 1) > 0
                      THEN Advance("idle", "params") ELSE Off
  /\ lpc' = "getready"
  /\ UNCHANGED <<running, threads, data_thread, stop_event, tc66c_instance,
                 first_reading_time, last_reading_time, first_mWh, last_mWh,
                 GatherErrorCount, master_mode, master_output_file, summary,
                 mpc, clock, sess, hist>>
  /\ UNCHANGED <<devVars, sideVars>>

\* the rest of GETREADY: TC66C(com_port), then the reset of the latched values.
\* "exit": serial.SerialException, the constructor calls sys.exit(1) and
\* SystemExit ends the listener thread; "raise": any other exception, caught.
GetReadyDevice ==
  /\ lpc = "getready"
  /\ ~ProcessEnded
  /\ \E dev \in {"ok", "exit", "raise"} :
       \/ /\ dev = "ok"
          /\ tc66c_instance' = TRUE
          /\ first_reading_time' = None
          /\ last_reading_time' = None
          /\ first_mWh' = None
          /\ last_mWh' = None
          /\ sess' = sess + 1
          /\ hist' = [NoHist EXCEPT !.clean = hist.clean]
          /\ lpc' = AfterMessage(stop_event)
          /\ script' = Advance("params", "ready")
       \/ /\ dev = "exit"
          /\ lpc' = "dead"
          /\ script' = Off
          /\ UNCHANGED <<tc66c_instance, first_reading_time, last_reading_time,
                         first_mWh, last_mWh, sess, hist>>
       \/ /\ dev = "raise"
          /\ lpc' = AfterMessage(stop_event)
          /\ script' = Off
          /\ UNCHANGED <<tc66c_instance, first_reading_time, last_reading_time,
                         first_mWh, last_mWh, sess, hist>>
  /\ UNCHANGED <<experiment_params, output_file, rows, running, threads,
                 data_thread, stop_event, GatherErrorCount, master_mode,
                 master_output_file, summary, mpc, clock, nmsgs, lastMsg>>
  /\ UNCHANGED <<devVars, sideVars>>

\* message == "START"
RecvStart ==
  /\ Received("START")
  /\ StartGuard => Len(threads) < MaxThreads
  /\ IF StartGuard
       THEN /\ running' = TRUE
            /\ threads' = Append(threads, [pc |-> "start", data |-> NoData,
                                            sample_period |-> 1])
            /\ data_thread' = Len(threads) + 1
            /\ script' = Advance("ready", "running")
       ELSE /\ UNCHANGED <<running, threads, data_thread>>
            /\ script' = Off
  /\ lpc' = AfterMessage(stop_event)
  /\ UNCHANGED <<experiment_params, output_file, rows, stop_event,
                 tc66c_instance, first_reading_time, last_reading_time,
                 first_mWh, last_mWh, GatherErrorCount, master_mode,
                 master_output_file, summary, mpc, clock, sess, hist>>
  /\ UNCHANGED <<devVars, sideVars>>

\* message.startswith("STOP"), up to data_thread.join()
RecvStop ==
  /\ \E kind \in StopKinds : Received(kind)
  /\ running' = FALSE
  /\ lpc' = "stopjoin"
  /\ script' = Advance("running", "stopping")
  /\ UNCHANGED <<experiment_params, output_file, rows, threads, data_thread,
                 stop_event, tc66c_instance, first_reading_time,
                 last_reading_time, first_mWh, last_mWh, GatherErrorCount,
                 master_mode, master_output_file, summary, mpc, clock, sess,
                 hist>>
  /\ UNCHANGED <<devVars, sideVars>>

\* the rest of STOP: join has returned; cleanup(); stop_event.set(); the
\* payload is parsed last and only logged.  An exception of cleanup is caught
\* by the handlers of the STOP branch, which skips stop_event.set().
StopFinish ==
  /\ lpc = "stopjoin"
  /\ ~ProcessEnded
  /\ Joined
  /\ IF PayloadAborts(lastMsg)
       THEN UNCHANGED <<output_file, summary, master_mode, master_output_file,
                        stop_event>>
       ELSE \E raised, chRW, opOk, chRO \in BOOLEAN :
              /\ cleanup(raised, chRW, opOk, chRO)
              /\ stop_event' = IF raised THEN stop_event ELSE TRUE
  /\ lpc' = AfterMessage(stop_event')
  /\ script' = Advance("stopping", "stopped")
  /\ UNCHANGED <<experiment_params, rows, running, threads, data_thread,
                 tc66c_instance, first_reading_time, last_reading_time,
                 first_mWh, last_mWh, GatherErrorCount, mpc, clock, nmsgs,
                 sess, lastMsg, hist>>
  /\ UNCHANGED <<devVars, sideVars>>

\* ---- the acquisition thread (data_acquisition, read_usb_data) ----------------
\* entry of data_acquisition: experiment_params.get("sample_period", 1.0) is
\* outside the try, so a non-object value ends the thread at once; without a
\* device the function returns through its finally.  The sample period is
\* read here, once, into a local of the thread.
ThreadStart(t) ==
  /\ threads[t].pc = "start"
  /\ IF experiment_params.kind = "nonobj"
       THEN /\ threads' = SetThread(t, "done", NoData)
            /\ UNCHANGED output_file
     ELSE IF ~tc66c_instance
       THEN /\ threads' = SetThread(t, "done", NoData)
            /\ output_file' = CloseFile(output_file)
     ELSE /\ threads' = [SetThread(t, "check", NoData) EXCEPT
                          ![t].sample_period = GetSamplePeriod(experiment_params)]
          /\ UNCHANGED output_file
  /\ UNCHANGED <<experiment_params, rows, running, data_thread, stop_event,
                 tc66c_instance, first_reading_time, last_reading_time,
                 first_mWh, last_mWh, GatherErrorCount, master_mode,
                 master_output_file, summary, lpc, mpc, clock, nmsgs, sess,
                 lastMsg, hist, script>>
  /\ UNCHANGED <<devVars, sideVars>>

\* variant: the loop goes on until the running flag is cleared, whatever the
\* shutdown signal says
LoopTestRunningOnly == running

\* `while running and not stop_event.is_set()`
LoopTest == running /\ ~stop_event

\* variant: the thread clears the running flag when its loop is over
LoopExitClearsRunning == FALSE

\* the running flag after the loop and its finally: data_acquisition declares
\* `global running` and never assigns it
LoopExitRunning == running

\* the test of the loop; leaving the loop runs the finally, which closes the
\* detail file
ThreadCheck(t) ==
  /\ threads[t].pc = "check"
  /\ IF LoopTest
       THEN /\ output_file # "none"
            /\ threads' = SetThread(t, "poll", NoData)
            /\ UNCHANGED <<output_file, running>>
       ELSE /\ threads' = SetThread(t, "done", NoData)
            /\ output_file' = CloseFile(output_file)
            /\ running' = LoopExitRunning
  /\ UNCHANGED <<experiment_params, rows, data_thread, stop_event,
                 tc66c_instance, first_reading_time, last_reading_time,
                 first_mWh, last_mWh, GatherErrorCount, master_mode,
                 master_output_file, summary, lpc, mpc, clock, nmsgs, sess,
                 lastMsg, hist, script>>
  /\ UNCHANGED <<devVars, sideVars>>

\* one call of read_usb_data.  fo: the outcome of the flushing Poll (made only
\* when nothing is latched), po: the outcome of the Poll whose record is used.
\* Once MaxPolls polls have been answered the meter answers no more: every
\* further Poll ends in "decrypt error" and returns None.
ThreadPoll(t) ==
  /\ threads[t].pc = "poll"
  /\ \E fo \in (IF NeedsFlush THEN PollOutcomes ELSE {NoPoll}),
        po \in PollOutcomes :
       LET flushed == IF NeedsFlush /\ fo.k = "ok"
                        THEN <<Combined(FrameOf(fo))>> ELSE <<>>
           cost    == IF NeedsFlush /\ fo.k # "exc" THEN 2 ELSE 1
       IN
       IF clock + cost > MaxPolls
         THEN /\ threads' = SetThread(t, "check", NoData)
              /\ script' = Off
              /\ hist' = [hist EXCEPT !.clean = FALSE]
              /\ UNCHANGED <<clock, GatherErrorCount, first_reading_time,
                             last_reading_time, first_mWh, last_mWh>>
       ELSE IF NeedsFlush /\ fo.k = "exc"
         THEN \* the flushing Poll raises: counted, no second Poll
              /\ clock' = clock + 1
              /\ GatherErrorCount' = GatherErrorCount + 1
              /\ threads' = SetThread(t, "check", NoData)
              /\ script' = Off
              /\ hist' = [hist EXCEPT !.clean = FALSE]
              /\ UNCHANGED <<first_reading_time, last_reading_time, first_mWh,
                             last_mWh>>
         ELSE
           LET now == clock + cost IN
           /\ clock' = now
           /\ IF po.k = "ok"
                THEN LET data == FrameOf(po) IN
                     /\ first_reading_time' =
                          IF first_reading_time = None THEN now ELSE first_reading_time
                     /\ first_mWh' =
                          IF first_reading_time = None THEN Combined(data) ELSE first_mWh
                     /\ last_reading_time' = now
                     /\ last_mWh' = Combined(data)
                     /\ threads' = SetThread(t, "write", data)
                     /\ hist' = [Ingested(hist, Combined(data)) EXCEPT
                                   !.clean = @ /\ (NeedsFlush => fo.k = "ok")]
                     /\ UNCHANGED GatherErrorCount
                     /\ script' =
                          IF script.at = "off" \/ (NeedsFlush /\ fo.k # "ok")
                            THEN Off
                            ELSE [script EXCEPT
                                    !.frames = @ \o flushed \o <<Combined(data)>>]
                ELSE /\ GatherErrorCount' =
                          IF po.k = "exc" THEN GatherErrorCount + 1 ELSE GatherErrorCount
                     /\ threads' = SetThread(t, "check", NoData)
                     /\ script' = Off
                     /\ hist' = [hist EXCEPT !.clean = FALSE]
                     /\ UNCHANGED <<first_reading_time, last_reading_time,
                                    first_mWh, last_mWh>>
  /\ UNCHANGED <<experiment_params, output_file, rows, running, data_thread,
                 stop_event, tc66c_instance, master_mode, master_output_file,
                 summary, lpc, mpc, nmsgs, sess, lastMsg>>
  /\ wire' = SendCmd(GetVa).written
  /\ UNCHANGED <<cmd_queue, sideVars>>

\* the body of `if data:` in data_acquisition: the row is formatted with the
\* parameters and first_mWh as they are now and written to output_file.
\* A non-object experiment_params or a closed handle raises; the exception
\* handler and the finally end the thread.  So does time.sleep(sample_period)
\* after the row has been written.
ThreadWrite(t) ==
  /\ threads[t].pc = "write"
  /\ IF experiment_params.kind = "obj" /\ output_file = "open"
       THEN /\ rows' = Append(rows, [Joules |-> CurrentJoules(threads[t].data, first_mWh)])
            /\ IF SleepRaises(threads[t].sample_period)
                 THEN /\ threads' = SetThread(t, "done", NoData)
                      /\ output_file' = "closed"
                 ELSE /\ threads' = SetThread(t, "check", NoData)
                      /\ UNCHANGED output_file
       ELSE /\ threads' = SetThread(t, "done", NoData)
            /\ output_file' = CloseFile(output_file)
            /\ UNCHANGED rows
  /\ UNCHANGED <<experiment_params, running, data_thread, stop_event,
                 tc66c_instance, first_reading_time, last_reading_time,
                 first_mWh, last_mWh, GatherErrorCount, master_mode,
                 master_output_file, summary, lpc, mpc, clock, nmsgs, sess,
                 lastMsg, hist, script>>
  /\ UNCHANGED <<devVars, sideVars>>

\* ---- the main thread (main) ---------------------------------------------------
\* `if not network_thread.is_alive(): break`
MainBreak ==
  /\ mpc = "wait"
  /\ lpc = "dead"
  /\ mpc' = "returned"
  /\ UNCHANGED <<progVars, lpc, clock, nmsgs, sess, lastMsg, hist, script>>
  /\ UNCHANGED <<devVars, sideVars>>

\* KeyboardInterrupt in the wait loop, up to data_thread.join().
\* `running = False` there assigns a local of main: the global is untouched.
Interrupt ==
  /\ mpc = "wait"
  /\ stop_event' = TRUE
  /\ mpc' = "intjoin"
  /\ script' = Off
  /\ UNCHANGED <<experiment_params, output_file, rows, running, threads,
                 data_thread, tc66c_instance, first_reading_time,
                 last_reading_time, first_mWh, last_mWh, GatherErrorCount,
                 master_mode, master_output_file, summary, lpc, clock, nmsgs,
                 sess, lastMsg, hist>>
  /\ UNCHANGED <<devVars, sideVars>>

\* the KeyboardInterrupt handler after the join: cleanup()
InterruptFinish ==
  /\ mpc = "intjoin"
  /\ Joined
  /\ \E raised, chRW, opOk, chRO \in BOOLEAN : cleanup(raised, chRW, opOk, chRO)
  /\ mpc' = "cleaned"
  /\ UNCHANGED <<experiment_params, rows, running, threads, data_thread,
                 stop_event, tc66c_instance, first_reading_time,
                 last_reading_time, first_mWh, last_mWh, GatherErrorCount,
                 lpc, clock, nmsgs, sess, lastMsg, hist, script>>
  /\ UNCHANGED <<devVars, sideVars>>

\* sys.exit(0), or the end of the main thread by an exception of cleanup
MainExit ==
  /\ mpc = "cleaned"
  /\ mpc' = "exited"
  /\ UNCHANGED <<progVars, lpc, clock, nmsgs, sess, lastMsg, hist, script>>
  /\ UNCHANGED <<devVars, sideVars>>

Next ==
  \/ ListenerStop
  \/ RecvUndecodable
  \/ RecvUnknown
  \/ RecvGetReadyMalformed
  \/ RecvGetReadyNonObject
  \/ RecvGetReady
  \/ GetReadyDevice
  \/ RecvStart
  \/ RecvStop
  \/ StopFinish
  \/ \E t \in DOMAIN threads : ThreadStart(t)
  \/ \E t \in DOMAIN threads : ThreadCheck(t)
  \/ \E t \in DOMAIN threads : ThreadPoll(t)
  \/ \E t \in DOMAIN threads : ThreadWrite(t)
  \/ MainBreak
  \/ Interrupt
  \/ InterruptFinish
  \/ MainExit

Spec == Init /\ [][Next]_vars

\* a started thread is scheduled again and again, and each Poll returns within
\* the timeout of the serial port (timeout=5)
ThreadStep(t) ==
  /\ t \in DOMAIN threads
  /\ ThreadStart(t) \/ ThreadCheck(t) \/ ThreadPoll(t) \/ ThreadWrite(t)

FairSpec == Spec /\ \A t \in 1 .. MaxThreads : WF_vars(ThreadStep(t))

\* ---- SendCmd on its own ------------------------------------------------------
\* a caller hands up to MaxCmds names to SendCmd, one after the other
CmdQueues == UNION {[1 .. n -> CmdNames] : n \in 1 .. MaxCmds}

CmdInit ==
  /\ InitProgram
  /\ wire = "none"
  /\ cmd_queue \in CmdQueues
  /\ CodecIdle
  /\ RecIdle
  /\ ExpIdle

\* one call of SendCmd: what it writes replaces the last write, an exception
\* leaves the port as it was
CmdSend ==
  /\ cmd_queue # <<>>
  /\ LET r == SendCmd(Head(cmd_queue)) IN
       wire' = IF r.raised THEN wire ELSE r.written
  /\ cmd_queue' = Tail(cmd_queue)
  /\ UNCHANGED <<progVars, lpc, mpc, clock, nmsgs, sess, lastMsg, hist, script>>
  /\ UNCHANGED sideVars

CmdNext == CmdSend

CmdSpec == CmdInit /\ [][CmdNext]_vars

\* ---- Poll on its own ------------------------------------------------------------
CodecInit ==
  /\ InitProgram
  /\ DevIdle
  /\ known \in KnownValues
  /\ \E n \in ReadLengths :
       buf = [n |-> n, ct |-> Encrypt(StaticKey, Layout(known))]
  /\ pd = Unpolled
  /\ RecIdle
  /\ ExpIdle

CodecPoll ==
  /\ pd = Unpolled
  /\ pd' = Poll(buf)
  /\ wire' = SendCmd(GetVa).written
  /\ UNCHANGED <<known, buf, cmd_queue, recVars, expVars>>
  /\ UNCHANGED <<progVars, lpc, mpc, clock, nmsgs, sess, lastMsg, hist, script>>

CodecNext == CodecPoll

CodecSpec == CodecInit /\ [][CodecNext]_vars

\* ---- GetRec on its own ----------------------------------------------------------
GetRecInit ==
  /\ InitProgram
  /\ DevIdle
  /\ CodecIdle
  /\ ExpIdle
  /\ stream \in Streams
  /\ delivered = <<>>
  /\ rec = <<>>
  /\ rd = <<>>
  /\ gpc = "send"

\* SendCmd("gtrec")
GetRecSend ==
  /\ gpc = "send"
  /\ gpc' = "loop"
  /\ wire' = SendCmd(GtRec).written
  /\ UNCHANGED <<stream, delivered, rec, rd, cmd_queue, codecVars, expVars>>
  /\ UNCHANGED <<progVars, lpc, mpc, clock, nmsgs, sess, lastMsg, hist, script>>

\* one pass of `while True`: read(8) returns n bytes, none when the meter has
\* sent all or the read times out
GetRecRead ==
  /\ gpc = "loop"
  /\ \E n \in 0 .. (IF Len(stream) < RecBytes THEN Len(stream) ELSE RecBytes) :
       LET b   == SubSeq(stream, 1, n)
           ext == rec \o b
       IN  IF n = 0
             THEN /\ gpc' = "returned"
                  /\ UNCHANGED <<stream, delivered, rec, rd>>
             ELSE /\ stream' = SubSeq(stream, n + 1, Len(stream))
                  /\ delivered' = delivered \o b
                  /\ IF Len(ext) >= RecBytes
                       THEN /\ rd' = Append(rd, RecData(SubSeq(ext, 1, RecBytes)))
                            /\ rec' = Rest(ext)
                       ELSE /\ rec' = ext
                            /\ UNCHANGED rd
                  /\ UNCHANGED gpc
  /\ UNCHANGED <<devVars, codecVars, expVars>>
  /\ UNCHANGED <<progVars, lpc, mpc, clock, nmsgs, sess, lastMsg, hist, script>>

GetRecNext == GetRecSend \/ GetRecRead

GetRecSpec == GetRecInit /\ [][GetRecNext]_vars

\* ---- one run of experimenter.py ---------------------------------------------------
ExpInit ==
  /\ InitProgram
  /\ DevIdle
  /\ CodecIdle
  /\ RecIdle
  /\ eargs \in ExpArgs
  /\ epc = "getready"
  /\ sent = <<>>
  /\ edone = {}

ExpRest ==
  /\ UNCHANGED <<eargs, devVars, codecVars, recVars>>
  /\ UNCHANGED <<progVars, lpc, mpc, clock, nmsgs, sess, lastMsg, hist, script>>

\* send_message: the message is sent, or a socket error ends the process
ExpSend(pc) ==
  /\ epc = pc
  /\ \E ok \in BOOLEAN :
       IF ok
         THEN /\ sent' = Append(sent, [kind |-> MessageOf(pc), host |-> eargs.host])
              /\ epc' = ExpAfter(pc)
              /\ edone' = edone \cup {pc}
         ELSE /\ epc' = "exited"
              /\ UNCHANGED <<sent, edone>>
  /\ ExpRest

\* run_command of a setup or reset command: a failing command ends the process
ExpCommand ==
  /\ epc \in {"governor", "fan", "fan_reset", "governor_reset"}
  /\ \E ok \in BOOLEAN :
       IF ok
         THEN epc' = ExpAfter(epc) /\ edone' = edone \cup {epc}
         ELSE epc' = "exited" /\ UNCHANGED edone
  /\ UNCHANGED sent
  /\ ExpRest

\* run_command("cat .../temp") and float() of its output
ExpReadTemp ==
  /\ epc \in {"temp0", "temp1"}
  /\ \E out \in {"number", "failed", "not a number"} :
       IF out = "number"
         THEN epc' = ExpAfter(epc) /\ edone' = edone \cup {epc}
         ELSE epc' = "exited" /\ UNCHANGED edone
  /\ UNCHANGED sent
  /\ ExpRest

\* the workload: sleeps for the NULL algorithms, else run_command of the
\* openssl loop
ExpWorkload ==
  /\ epc = "workload"
  /\ \E ok \in (IF eargs.algorithm \in {"NULL", "NULLNoLoop"}
                  THEN {TRUE} ELSE BOOLEAN) :
       IF ok
         THEN epc' = ExpAfter(epc) /\ edone' = edone \cup {epc}
         ELSE epc' = "exited" /\ UNCHANGED edone
  /\ UNCHANGED sent
  /\ ExpRest

ExpNext ==
  \/ ExpSend("getready")
  \/ ExpSend("start")
  \/ ExpSend("stop")
  \/ ExpCommand
  \/ ExpReadTemp
  \/ ExpWorkload

ExpSpec == ExpInit /\ [][ExpNext]_vars

\* ==== properties ================================================================
\* steps of the model, recognised from the two states
SummaryAppended == Len(summary') = Len(summary) + 1

NewRow == summary'[Len(summary')]

StartStep == nmsgs' = nmsgs + 1 /\ lastMsg' = "START"

StopStep == nmsgs' = nmsgs + 1 /\ lastMsg' \in StopKinds

StopFinalized == lpc = "stopjoin" /\ lpc' # "stopjoin"

Spawned == Len(threads') = Len(threads) + 1

\* the thread t has decoded a sample in this step
Decoded(t) == threads[t].pc = "poll" /\ threads'[t].pc = "write"

\* the value the rate columns would carry for "not applicable"
NotApplicable == None

\* C1: whenever cleanup appends a summary row, its TotalJoules is
\* (last_mWh - first_mWh) x 3.6 with first_mWh the first sample ingested in the
\* session and last_mWh the value latched at that moment.
C1_TotalIsLastMinusFirst ==
  [][SummaryAppended =>
       /\ NewRow.TotalJoules = (last_mWh - first_mWh) * CentiJoulesPerMWh
       /\ first_mWh = hist.first
       /\ first_mWh # None /\ last_mWh # None]_vars

C1_Witness ==
  /\ Len(summary) >= 1
  /\ summary[1].TotalJoules > 0
  /\ last_mWh > first_mWh

\* C2 (as claimed): a decoded sample whose combined charge is below
\* first_mWh adds exactly one to the error counter and leaves last_mWh and
\* last_reading_time as they were.
C2_NegativeSampleRejected ==
  [][\A t \in DOMAIN threads :
       (Decoded(t) /\ first_mWh # None
          /\ Combined(threads'[t].data) < first_mWh)
       => /\ GatherErrorCount' = GatherErrorCount + 1
          /\ last_mWh' = last_mWh
          /\ last_reading_time' = last_reading_time]_vars

\* C3 (as claimed): in a session whose valid samples are non-decreasing, with
\* negative-delta samples anywhere, the energy of the summary row is
\* (last valid sample - first sample) x 3.6, never negative, and the error
\* counter is the number of rejected samples.
C3_EnergyIgnoresCorrupted ==
  [][(SummaryAppended /\ hist.first # None /\ hist.mono) =>
       /\ NewRow.TotalJoules = (hist.lastValid - hist.first) * CentiJoulesPerMWh
       /\ NewRow.TotalJoules >= 0
       /\ (hist.clean => GatherErrorCount = hist.negative)]_vars

\* C4 (as claimed): after GETREADY, START, n decoded polls, STOP the first
\* decoded frame is the latched first_mWh, the detail file has n rows and the
\* summary total is (n-th frame - first frame) x 3.6.
C4_FirstPollLatched ==
  (script.at = "stopped" /\ Len(script.frames) >= 1) =>
     LET n == Len(script.frames) IN
     /\ first_mWh = script.frames[1]
     /\ Len(rows) = n
     /\ Len(summary) = 1 =>
          summary[1].TotalJoules =
            (script.frames[n] - script.frames[1]) * CentiJoulesPerMWh

\* C4 (amended): the first decoded frame is the discarded flush, the second is
\* latched as first_mWh, the detail file has n - 1 rows and the summary total
\* is (n-th frame - second frame) x 3.6.
C4_SecondPollLatched ==
  (script.at = "stopped" /\ Len(script.frames) >= 1) =>
     LET n == Len(script.frames) IN
     /\ n >= 2
     /\ first_mWh = script.frames[2]
     /\ last_mWh = script.frames[n]
     /\ Len(rows) = n - 1
     /\ rows[1].Joules = 0
     /\ Len(summary) <= 1
     /\ Len(summary) = 1 =>
          summary[1].TotalJoules =
            (script.frames[n] - script.frames[2]) * CentiJoulesPerMWh

C4_Witness ==
  /\ script.at = "stopped"
  /\ Len(script.frames) >= 3
  /\ script.frames[1] # script.frames[2]
  /\ Len(summary) = 1
  /\ summary[1].TotalJoules > 0

\* C5 (as claimed): a session never gets more than one summary row, whoever
\* invokes finalization again (a replayed STOP, the operator interrupt).
C5_OneRowPerSession ==
  \A i, j \in DOMAIN summary :
    summary[i].session = summary[j].session => i = j

\* C6: a START received while no GETREADY has ever completed changes nothing:
\* running stays false and no thread is created.
C6_StartInIdleRejected ==
  [][(StartStep /\ sess = 0) =>
       /\ UNCHANGED progVars
       /\ ~running' /\ threads' = <<>>]_vars

C6_Witness ==
  /\ lastMsg = "START"
  /\ sess = 0
  /\ experiment_params # EmptyParams
  /\ output_file = "open"
  /\ threads = <<>>
  /\ lpc = "recv"

\* C7 (as claimed): with iterations = 0 and a latched sample, the finalization
\* of STOP completes without an error (the statement after cleanup() runs)
\* and appends one row whose rate columns say "not applicable".
C7_ZeroIterationsFinalizes ==
  [][(StopFinalized /\ first_mWh # None /\ last_mWh # None
        /\ experiment_params.kind = "obj"
        /\ "iterations" \in experiment_params.has
        /\ experiment_params.iterations = 0)
     => /\ stop_event'
        /\ SummaryAppended
        /\ NewRow.JoulesPer1000 = NotApplicable
        /\ NewRow.SecondsPer1000 = NotApplicable]_vars

\* parameters have been installed: experiment_params is no longer the empty
\* dict of the module's start
C8_ParamsInstalled == experiment_params # EmptyParams

\* C8 (as claimed): START sets running and spawns a thread exactly when
\* parameters are installed, the detail file is open and a device connection
\* exists; otherwise it changes nothing.
C8_StartIffReady ==
  [][StartStep =>
       IF C8_ParamsInstalled /\ output_file = "open" /\ tc66c_instance
         THEN running' /\ Spawned
         ELSE UNCHANGED progVars]_vars

\* C9 (as claimed): at most one acquisition loop is alive at any moment.
C9_AtMostOneLoopAlive ==
  Cardinality({t \in DOMAIN threads : threads[t].pc # "done"}) <= 1

\* C10 (as claimed): a STOP received when no START was ever accepted is
\* ignored: the state is unchanged, the shutdown signal is not set and the
\* listener goes back to receiving.
C10_StopInIdleIgnored ==
  [][/\ (StopStep /\ threads = <<>>) => UNCHANGED progVars
     /\ (StopFinalized /\ threads = <<>>) =>
          (UNCHANGED progVars /\ lpc' = "recv")]_vars

\* C10 (amended): such a STOP appends no summary row and leaves parameters,
\* device connection, latched values and error counter alone, but it closes
\* an open detail file, sets the shutdown signal and ends the listener.
C10_StopInIdleShutsDown ==
  [][/\ (StopStep /\ threads = <<>>) => UNCHANGED progVars
     /\ (StopFinalized /\ threads = <<>>) =>
          /\ summary' = summary
          /\ output_file' = (IF output_file = "open" THEN "closed" ELSE output_file)
          /\ stop_event'
          /\ lpc' = "dead"
          /\ UNCHANGED <<experiment_params, rows, running, threads, data_thread,
                         tc66c_instance, first_reading_time, last_reading_time,
                         first_mWh, last_mWh, GatherErrorCount, master_mode,
                         master_output_file>>]_vars

C10_Witness ==
  /\ lastMsg = "STOP"
  /\ threads = <<>>
  /\ sess >= 1
  /\ output_file = "closed"
  /\ stop_event
  /\ lpc = "dead"
  /\ mpc = "wait"

\* the listener is executing process_network_message (between two recvfrom)
ListenerInHandler == lpc \in {"getready", "stopjoin"}

\* the main thread runs cleanup() in this step
MainCleanupStep == mpc = "intjoin" /\ mpc' = "cleaned"

\* the construction of the device connection fails in this step
DeviceFailedStep == lpc = "getready" /\ lpc' # "getready" /\ sess' = sess

\* a step of an acquisition thread
ThreadStepTaken == threads' # threads /\ Len(threads') = Len(threads)

\* the thread t leaves its poll loop in this step
LoopExit(t) == threads[t].pc \in {"check", "write"} /\ threads'[t].pc = "done"

\* the thread t gets nothing from read_usb_data in this step
PollFailed(t) == threads[t].pc = "poll" /\ threads'[t].pc = "check"

AllLoopsDone == \A t \in DOMAIN threads : ~Alive(t)

\* C11 (as claimed): when STOP has been processed and the summary row written,
\* the listener is receiving again (ready for the next GETREADY).
C11_StopReturnsToIdle ==
  [][(StopFinalized /\ SummaryAppended) => lpc' = "recv"]_vars

\* C11 (amended): when STOP has been processed and finalization has completed
\* (the shutdown signal is set), the listener has stopped; a stopped listener
\* never receives again, so no later GETREADY or START is processed by this
\* process.
C11_StopEndsListener ==
  [][/\ (StopFinalized /\ stop_event') => lpc' = "dead"
     /\ lpc = "dead" =>
          /\ lpc' = "dead"
          /\ nmsgs' = nmsgs
          /\ UNCHANGED <<experiment_params, tc66c_instance, data_thread>>
          /\ Len(threads') = Len(threads)]_vars

C11_Witness ==
  /\ lastMsg \in StopKinds
  /\ Len(summary) = 1
  /\ stop_event
  /\ lpc = "dead"
  /\ mpc = "returned"
  /\ nmsgs < MaxMsgs

\* C12 (as claimed): every processed STOP leaves the detail file closed, the
\* shutdown signal set and the listener stopped.
C12_StopAlwaysShutsDown ==
  [][StopFinalized =>
       /\ output_file' # "open"
       /\ stop_event'
       /\ lpc' = "dead"]_vars

\* C13 (as claimed): a GETREADY without payload, with text that is not JSON or
\* with JSON that is not an object leaves the session state as it was.
C13_MalformedGetReadyNoEffect ==
  [][(nmsgs' = nmsgs + 1 /\ lastMsg' \in {"GETREADY_bad", "GETREADY_nonobj"})
       => UNCHANGED progVars]_vars

\* C14 (as claimed): when the device connection cannot be established the
\* listener keeps receiving, and a GETREADY that was the first message of the
\* run leaves neither parameters nor detail file installed.
C14_DeviceFailureAborts ==
  [][DeviceFailedStep =>
       /\ lpc' = AfterMessage(stop_event)
       /\ nmsgs = 1 =>
            (experiment_params' = EmptyParams /\ output_file' = "none")]_vars

\* C15 (as claimed): when STOP runs the summary writer no acquisition loop is
\* alive.
C15_SummaryAfterAllLoops ==
  [][StopFinalized => AllLoopsDone]_vars

\* C16: a STOP without payload or with a payload that is not JSON stops the
\* loop and finalizes like any STOP: the thread it waited for has ended, and
\* the step is the step of cleanup() followed by stop_event.set().
C16_StopPayloadIrrelevant ==
  [][(StopFinalized /\ lastMsg \in {"STOP_bare", "STOP_bad"}) =>
       /\ ~running
       /\ Joined
       /\ output_file' = CloseFile(output_file)
       /\ \E raised, chRW, opOk, chRO \in BOOLEAN :
            /\ cleanup(raised, chRW, opOk, chRO)
            /\ stop_event' = (IF raised THEN stop_event ELSE TRUE)
       /\ (Latched /\ experiment_params.kind = "obj"
             /\ GetIterations(experiment_params, 1) > 0
             /\ master_output_file = "none" /\ summary' # summary)
          => /\ SummaryAppended
             /\ NewRow.TotalJoules = TotalJoules(first_mWh, last_mWh)
             /\ stop_event']_vars

C16_Witness ==
  /\ lastMsg \in {"STOP_bare", "STOP_bad"}
  /\ Len(summary) = 1
  /\ summary[1].TotalJoules > 0
  /\ stop_event
  /\ lpc = "dead"
  /\ AllLoopsDone

\* C17 (as claimed): every call of read_usb_data that yields no record adds
\* exactly one to the error counter, writes no row and leaves the thread in
\* its loop.
C17_FailedPollCounted ==
  [][\A t \in DOMAIN threads :
       PollFailed(t) =>
         /\ GatherErrorCount' = GatherErrorCount + 1
         /\ rows' = rows]_vars

C19_HandlersSerialized ==
  [][MainCleanupStep => ~ListenerInHandler]_vars

\* C20: a step of an acquisition thread leaves the running flag, the shutdown
\* signal, the installed parameters, the device connection and the thread
\* handle alone; it never installs or removes the detail-file handle, never
\* touches the summary log, and beyond the file it writes and closes it
\* changes only the latched first/last values and the error counter.
C20_LoopOnlyReadsPhase ==
  [][ThreadStepTaken =>
       /\ UNCHANGED <<running, stop_event, experiment_params, tc66c_instance,
                      data_thread, master_mode, master_output_file, summary>>
       /\ (output_file' = "none") = (output_file = "none")
       /\ Len(rows') >= Len(rows)]_vars

C20_Witness ==
  /\ running
  /\ ~stop_event
  /\ GatherErrorCount > 0
  /\ first_mWh # None
  /\ last_mWh # None
  /\ rows # <<>>
  /\ \E t \in DOMAIN threads : threads[t].pc = "check"

\* the main thread enters its KeyboardInterrupt handler in this step
InterruptStep == mpc = "wait" /\ mpc' = "intjoin"

\* a GETREADY runs to completion in this step
GetReadyCompleted == lpc = "getready" /\ sess' = sess + 1

\* SendCmd is called with the head of cmd_queue in this step
CmdSendStep == cmd_queue # <<>> /\ cmd_queue' = Tail(cmd_queue)

\* C21 (as claimed): while the running flag stays set the installed
\* parameters and the latched first charge and first time do not change, and
\* the detail file is not replaced (it is not reopened and loses no row).
C21_SessionFixedWhileRunning ==
  [][(running /\ running') =>
       /\ experiment_params' = experiment_params
       /\ first_mWh # None =>
            (first_mWh' = first_mWh /\ first_reading_time' = first_reading_time)
       /\ Len(rows') >= Len(rows)
       /\ output_file = "closed" => output_file' = "closed"]_vars

\* C22 (as claimed): a finalization that appends nothing to a summary log
\* already written and read-only (opening or writing it failed, or there was
\* nothing to write) leaves the log read-only.
C22_FailedAppendLeavesReadOnly ==
  [][(Len(summary) >= 1 /\ master_mode = "RO" /\ ~SummaryAppended)
       => master_mode' = "RO"]_vars

\* C23 (as claimed): the finalization of STOP, in a process in which a
\* GETREADY with a JSON object and a positive iteration count has completed
\* and a START has been accepted, appends exactly one row, whether or not a
\* poll succeeded; no step changes or removes a row of the log.
C23_OneRowPerCompletedSession ==
  [][/\ (StopFinalized /\ sess >= 1 /\ data_thread # 0
           /\ experiment_params.kind = "obj"
           /\ GetIterations(experiment_params, 1) > 0) => SummaryAppended
     /\ Len(summary') >= Len(summary)
     /\ SubSeq(summary', 1, Len(summary)) = summary]_vars

\* C24 (as claimed): the interrupt handler sets the shutdown signal, and when
\* it runs cleanup no acquisition loop is alive and the detail file is left
\* closed.
C24_InterruptJoinsThenCleans ==
  [][/\ InterruptStep => stop_event'
     /\ MainCleanupStep => (AllLoopsDone /\ output_file' # "open")]_vars

\* C25 (as claimed): a text that is none of `GETREADY <json>`, `START`,
\* `STOP <json>`, such as `START x` or a word beginning with STOP, changes
\* nothing, neither when it is received nor when its handling ends.
C25_OtherTextIgnored ==
  [][/\ (nmsgs' = nmsgs + 1 /\ lastMsg' \in {"unknown", "STOP_word"})
          => UNCHANGED progVars
     /\ (StopFinalized /\ lastMsg = "STOP_word") => UNCHANGED progVars]_vars

\* C26 (as claimed): the listener ends only with the shutdown signal set.
C26_ListenerStopsOnlyOnSignal ==
  [][(lpc # "dead" /\ lpc' = "dead") => stop_event']_vars

\* C27 (as claimed): after a completed GETREADY with a JSON object, whatever
\* keys it has, with the detail file open and the device connected, START is
\* accepted and starts the acquisition thread.
C27_DefaultsAccepted ==
  [][(StartStep /\ sess >= 1 /\ experiment_params.kind = "obj"
        /\ output_file = "open" /\ tc66c_instance)
     => (running' /\ Spawned)]_vars

\* C28 (as claimed): a session is never running with a sample period that is
\* not above zero.
C28_SamplePeriodPositive ==
  (running /\ experiment_params.kind = "obj")
     => GetSamplePeriod(experiment_params) > 0

\* C29 (as claimed): when a GETREADY completes, the first and last timestamps
\* and charges are unset and the error counter is 0.
C29_GetReadyStartsFresh ==
  [][GetReadyCompleted =>
       /\ first_reading_time' = None /\ last_reading_time' = None
       /\ first_mWh' = None /\ last_mWh' = None
       /\ GatherErrorCount' = 0]_vars

\* C30 (as claimed): SendCmd writes the bytes of a name of the fixed set and
\* for any other name fails and writes nothing.
C30_OnlyValidCmdsWritten ==
  [][CmdSendStep =>
       LET name == Head(cmd_queue) IN
       IF name.ascii /\ name.text \in ValidCmds
         THEN wire' = name.text
         ELSE SendCmd(name).raised /\ wire' = wire]_vars

\* Poll has been called and has ended
Polled == pd # Unpolled

\* Poll has returned a PollData record
Recorded == pd.k = "record"

\* the thread t executes output_file.write(csv_row) in this step
WriteCall(t) ==
  /\ threads[t].pc = "write"
  /\ threads'[t].pc # "write"
  /\ experiment_params.kind = "obj"

\* the messages of kind k among msgs, as positions
Positions(msgs, k) == {i \in 1 .. Len(msgs) : msgs[i].kind = k}

\* C31 (as claimed): Poll yields a record exactly for a reply of 192 bytes
\* whose decryption succeeds and whose tag fields (the sub-record tags, Name
\* and Version) are printable ASCII; in every other case it yields none.
C31_RecordOnlyForValidFrame ==
  Polled =>
    (Recorded <=> (/\ buf.n = FrameBytes
                   /\ ~Decrypt(StaticKey, buf).raised
                   /\ known.tag = "printable"
                   /\ known.text = "printable"))

\* C32: for a whole frame that is the encryption under the fixed key of the
\* layout of known field values, Poll returns exactly those values: voltage
\* x 1e-4, current x 1e-5, power x 1e-4, resistance x 1e-1, D+ and D- x 1e-2,
\* the counters and charges unscaled, the temperature with its sign.
C32_RoundTrip ==
  Recorded =>
    /\ pd.Name = known.text /\ pd.Version = known.text
    /\ pd.SN = 7 /\ pd.Runs = 9
    /\ pd.Volt = [raw |-> known.v, decimals |-> 4]
    /\ pd.Current = [raw |-> known.v + 1, decimals |-> 5]
    /\ pd.Power = [raw |-> known.v + 2, decimals |-> 4]
    /\ pd.Resistance = [raw |-> known.v + 3, decimals |-> 1]
    /\ pd.G0_mAh = 1 /\ pd.G0_mWh = 3 /\ pd.G1_mAh = 2 /\ pd.G1_mWh = 0
    /\ pd.D_plus = [raw |-> known.v + 4, decimals |-> 2]
    /\ pd.D_minus = [raw |-> known.v + 5, decimals |-> 2]
    /\ (pd.Temp = known.temp \/ pd.Temp = 0 - known.temp)

C32_Witness ==
  Recorded /\ known.v = MaxRaw /\ known.text = "printable" /\ buf.n = FrameBytes

\* C33: the decoded temperature is minus the magnitude field when the sign
\* flag field is exactly 1 and plus the magnitude for every other flag value.
C33_TemperatureSign ==
  Recorded =>
    pd.Temp = (IF known.flag = 1 THEN 0 - known.temp ELSE known.temp)

C33_Witness ==
  /\ Recorded
  /\ known.temp > 0
  /\ known.flag > 1
  /\ pd.Temp = known.temp

\* the records are those of the successive groups of 8 bytes read so far and
\* the carry-over buffer holds the fewer than 8 bytes after them
RecordsOfDelivered ==
  /\ Len(rec) < RecBytes
  /\ Len(rd) = Len(delivered) \div RecBytes
  /\ \A i \in 1 .. Len(rd) :
       LET b == SubSeq(delivered, RecBytes * (i - 1) + 1, RecBytes * i) IN
       /\ rd[i].Volt = [raw |-> Word(SubSeq(b, 1, 4)), decimals |-> 4]
       /\ rd[i].Current = [raw |-> Word(SubSeq(b, 5, 8)), decimals |-> 5]
  /\ rec = SubSeq(delivered, RecBytes * Len(rd) + 1, Len(delivered))

\* C34: after every pass of the loop of GetRec the carry-over buffer holds
\* fewer than 8 bytes and the records are those of the successive groups of
\* 8 bytes read so far, floor(bytes / 8) of them in stream order, however
\* the reads split the stream; a pass whose read yields zero bytes ends
\* GetRec with the records unchanged, and no other pass ends it.
C34_GetRecRecords ==
  /\ []RecordsOfDelivered
  /\ [][gpc = "loop" =>
          /\ delivered' = delivered => (gpc' = "returned" /\ rd' = rd)
          /\ delivered' # delivered => gpc' = "loop"]_vars

C34_Witness ==
  /\ gpc = "returned"
  /\ Len(rd) = 2
  /\ Len(rec) > 0
  /\ stream = <<>>

\* C35: the messages experimenter.py has sent are at every moment an initial
\* part of GETREADY, START, STOP (each once, in this order); START is sent
\* only after GETREADY and the environment setup, STOP only after the
\* workload has finished; a run that reaches its end has sent all three.
C35_OneOfEachInOrder ==
  /\ Len(sent) <= 3
  /\ Kinds(sent) = SubSeq(<<"GETREADY", "START", "STOP">>, 1, Len(sent))
  /\ Positions(sent, "START") # {} =>
       {"getready", "governor", "fan", "temp0"} \subseteq edone
  /\ Positions(sent, "STOP") # {} => {"start", "workload"} \subseteq edone
  /\ epc = "done" => Len(sent) = 3

C35_Witness == epc = "done" /\ Len(sent) = 3 /\ "workload" \in edone

\* C36 (as claimed): every row written to the detail file carries
\* (its combined charge - the latched first charge) x 3.6 with the first
\* charge set, and the first row of a detail file carries 0.
C36_RowAgainstLatchedFirst ==
  [][\A t \in DOMAIN threads :
       (WriteCall(t) /\ Len(rows') = Len(rows) + 1) =>
          /\ first_mWh # None
          /\ rows'[Len(rows')].Joules =
               (Combined(threads[t].data) - first_mWh) * CentiJoulesPerMWh
          /\ rows = <<>> => rows'[1].Joules = 0]_vars

\* C37 (as claimed): no acquisition loop calls write on a detail-file handle
\* that has been closed.
C37_NoWriteAfterClose ==
  [][\A t \in DOMAIN threads : WriteCall(t) => output_file # "closed"]_vars

\* C38 (as claimed): when a run of experimenter.py has ended, every START it
\* sent is followed by a STOP sent to the same collector.
C38_StartFollowedByStop ==
  epc \in {"done", "exited"} =>
    \A i \in Positions(sent, "START") :
      \E j \in Positions(sent, "STOP") : j > i /\ sent[j].host = sent[i].host
====
